---- MODULE Spec2Model ----
(***************************************************************************)
(* State-machine model of the graph editor's canvas controller (Flow) in   *)
(* src/src/components/graph/graph.tsx: connection inference, connection    *)
(* validity, drop-to-create, selection -> side-pane routing, saving        *)
(* (onSubmit), the mount effect and the fit-view timers; and of the API    *)
(* layer in src/unnamed/part_001.                                          *)
(*                                                                         *)
(* Strings of the program are TLA+ strings.  Node ids are additionally     *)
(* known as sequences of characters (IdChars) so that JavaScript's default *)
(* Array.prototype.sort (comparison by UTF-16 code unit) can be computed.  *)
(*                                                                         *)
(* Each group of handlers has its own specification over the same          *)
(* variables: Spec and SpecConnect (editing), SpecSave (saving),           *)
(* SpecRender (mount and later renders), SpecTimers (fit-view timers),     *)
(* SpecApi (API requests).                                                 *)
(***************************************************************************)
EXTENDS Integers, Sequences, FiniteSets, TLC

VARIABLES
    mounted,        \* Flow has rendered once and its mount effects have run
    nodes,          \* graph store: nodes (in array order)
    edges,          \* graph store: edges (in array order)
    dirty,          \* graph store: dirty flag
    pane,           \* navigable query state: pane
    nodeId,         \* navigable query state: nodeId
    edgeId,         \* navigable query state: edgeId
    closureNodes,   \* `nodes` as captured by onConnectWrapped (useCallback, deps [])
    rafQueue,       \* edges handed to requestAnimationFrame, not yet executed
    connection,     \* the connection gesture of the last step and isValidConnection's verdict
    lastOp,         \* the handler that ran last
    graph,          \* the `graph` prop of the mounted Flow
    metadataId,     \* graph store: metadata.id
    errors,         \* graph-errors store: the error summary shown, Null when none
    inflight,       \* onSubmit calls suspended at `await saveGraph(...)`
    issued,         \* number of onSubmit calls made so far
    saveCalls,      \* number of calls of saveGraph made so far
    navigating,     \* the graph id router.push was given, Null when none is pending
    handled,        \* the save result the last step resumed onSubmit with
    toast,          \* the notifications the last step raised
    thrown,         \* the last step ended with an exception nobody caught
    renders,        \* renders of Flow after the first one
    setInitialCalls, \* calls of the store's setInitial since the page was opened
    showPlayground, \* Flow's state showPlayground
    timers,         \* the browser's pending timers set by the fit-view effects
    paneEffect,     \* the isOpen effect as it last ran: its isOpen, its timer
    playgroundEffect, \* the showPlayground effect as it last ran
    timerSeq,       \* timer ids handed out by setTimeout so far
    tornDown,       \* Flow has been unmounted
    cancelled,      \* the pending timers the last step's cleanups cleared
    lateFitView,    \* a fit-view timer callback ran after the unmount
    INKEEP_AGENTS_MANAGE_API_URL,   \* part_001:14
    INKEEP_AGENTS_RUN_API_URL,      \* part_001:15
    hasWarnedManageApi,             \* part_001:16
    hasWarnedRunApi,                \* part_001:17
    env,            \* process.env: the two URL variables
    warnings,       \* console.warn calls so far, per plane
    requests,       \* API requests made so far
    lastRequest     \* the last API request: plane, base URL, what fetch gave, how it ended

editorVars == <<mounted, nodes, edges, dirty, pane, nodeId, edgeId, closureNodes,
                rafQueue, connection, lastOp>>

saveVars == <<graph, metadataId, errors, inflight, issued, saveCalls, navigating,
              handled, toast, thrown>>

renderVars == <<renders, setInitialCalls>>

timerVars == <<showPlayground, timers, paneEffect, playgroundEffect, timerSeq,
               tornDown, cancelled, lateFitView>>

apiVars == <<INKEEP_AGENTS_MANAGE_API_URL, INKEEP_AGENTS_RUN_API_URL,
             hasWarnedManageApi, hasWarnedRunApi, env, warnings, requests,
             lastRequest>>

vars == <<editorVars, saveVars, renderVars, timerVars, apiVars>>

----------------------------------------------------------------------------
(* Bounds of the model *)

MaxNodes == 3
MaxEdges == 2
MaxRaf == 1
MaxSaves == 2
MaxSaveMcp == 3
MaxEditSaves == 1
MaxRenders == 3
MaxTimers == 5
MaxRequests == 3

----------------------------------------------------------------------------
(* Values *)

Null == "<null>"

\* node-types configuration (imported at graph.tsx:53-62)
agentNodeSourceHandleId == "agent-source"
agentNodeTargetHandleId == "agent-target"
externalAgentNodeTargetHandleId == "external-agent-target"
mcpNodeHandleId == "mcp"

NodeTypeAgent == "agent"
NodeTypeMCP == "mcp-node"
NodeTypeExternalAgent == "external-agent"
NodeTypes == {NodeTypeAgent, NodeTypeMCP, NodeTypeExternalAgent}

\* edge-types configuration (imported at graph.tsx:52)
EdgeTypeA2A == "a2a"
EdgeTypeA2AExternal == "a2a-external"
EdgeTypeSelfLoop == "self-loop"

Handles == {agentNodeSourceHandleId, agentNodeTargetHandleId,
            externalAgentNodeTargetHandleId, mcpNodeHandleId}

\* the handles a node of each type renders: a connection's sourceHandle is a
\* handle of its source node, its targetHandle one of its target node
HandlesOf(type) ==
    CASE type = NodeTypeAgent -> {agentNodeSourceHandleId, agentNodeTargetHandleId}
      [] type = NodeTypeMCP -> {mcpNodeHandleId}
      [] type = NodeTypeExternalAgent -> {externalAgentNodeTargetHandleId}

----------------------------------------------------------------------------
(* Strings and their order *)

\* UTF-16 code unit of the characters in use
CodeUnit(c) ==
    CASE c = "-" -> 45
      [] c = "a" -> 97
      [] c = "b" -> 98
      [] c = "e" -> 101
      [] c = "f" -> 102
      [] c = "l" -> 108
      [] c = "m" -> 109
      [] c = "s" -> 115
      [] c = "x" -> 120

RECURSIVE Str(_)
Str(cs) == IF cs = <<>> THEN "" ELSE Head(cs) \o Str(Tail(cs))

\* ids of a loaded graph's nodes, and ids nanoid() may return
GraphIdChars == {<<"a">>, <<"m">>}
NanoIdChars == {<<"b">>, <<"a", "-", "b">>}
IdChars == GraphIdChars \cup NanoIdChars
NanoIds == {Str(cs) : cs \in NanoIdChars}
Ids == {Str(cs) : cs \in IdChars}

\* ids of agents as their author may have chosen them: with '-' inside, and
\* the word 'self'
AgentIdChars ==
    {<<"a">>, <<"b", "-", "m">>, <<"a", "-", "b">>, <<"m">>,
     <<"s", "e", "l", "f">>, <<"x">>}

CharsOf(s) == CHOOSE cs \in IdChars \cup AgentIdChars : Str(cs) = s

\* a < b as JavaScript compares strings: by code unit, a proper prefix first
RECURSIVE CharsLess(_, _)
CharsLess(x, y) ==
    IF y = <<>> THEN FALSE
    ELSE IF x = <<>> THEN TRUE
    ELSE IF Head(x) = Head(y) THEN CharsLess(Tail(x), Tail(y))
    ELSE CodeUnit(Head(x)) < CodeUnit(Head(y))

StrLess(a, b) == CharsLess(CharsOf(a), CharsOf(b))

\* Faulty variant: the pair left in the order given
SortPair_Unsorted(a, b) == <<a, b>>

\* [a, b].sort(): default comparator, stable
SortPair(a, b) == IF StrLess(b, a) THEN <<b, a>> ELSE <<a, b>>

getEdgeId(a, b) ==
    LET s == SortPair(a, b)
    IN  "edge-" \o s[1] \o "-" \o s[2]

----------------------------------------------------------------------------
(* Nodes and edges *)

\* A store node.  data.agentId / data.toolId / data.relationshipId are the
\* MCPNodeData fields the controller reads and writes; Null when absent.
Node(id, type, selected, agentId, toolId, relationshipId) ==
    [id |-> id, type |-> type, selected |-> selected,
     agentId |-> agentId, toolId |-> toolId, relationshipId |-> relationshipId]

Relationships(tTS, tST, dTS, dST) ==
    [transferTargetToSource |-> tTS, transferSourceToTarget |-> tST,
     delegateTargetToSource |-> dTS, delegateSourceToTarget |-> dST]

\* Index set of a sequence, and the elements satisfying a test, in order
Range(s) == {s[i] : i \in 1..Len(s)}
NodeIdsOf(ns) == {ns[i].id : i \in 1..Len(ns)}
EdgeIdsOf(es) == {es[i].id : i \in 1..Len(es)}

\* Array.prototype.find on node id: <<>> when absent, else <<first match>>
FindNode(ns, id) ==
    LET hits == {i \in 1..Len(ns) : ns[i].id = id}
    IN  IF hits = {} THEN <<>>
        ELSE <<ns[CHOOSE i \in hits : \A j \in hits : i <= j]>>

\* nodes.map(n => ({...n, selected: test(n.id)}))
SelectNodes(ns, ids) == [i \in 1..Len(ns) |-> [ns[i] EXCEPT !.selected = (ns[i].id \in ids)]]
SelectEdges(es, ids) == [i \in 1..Len(es) |-> [es[i] EXCEPT !.selected = (es[i].id \in ids)]]

SelectedNodes(ns) == {ns[i] : i \in {j \in 1..Len(ns) : ns[j].selected}}
SelectedEdges(es) == {es[i] : i \in {j \in 1..Len(es) : es[j].selected}}

----------------------------------------------------------------------------
(* Connection inference: onConnectWrapped, graph.tsx:285-363 *)

\* sourceHandle === agentNodeSourceHandleId || sourceHandle === agentNodeTargetHandleId
IsAgentHandle(h) == h = agentNodeSourceHandleId \/ h = agentNodeTargetHandleId

\* relationships literal of the SelfLoop and the A2A branch
TransferDefault == Relationships(FALSE, TRUE, FALSE, FALSE)

\* Faulty variant: the external branch given the transfer default of the other two
DelegateDefault_Transfer == Relationships(FALSE, TRUE, FALSE, FALSE)

\* relationships literal of the A2AExternal branch
DelegateDefault == Relationships(FALSE, FALSE, FALSE, TRUE)

\* Faulty variant: only source handle -> target handle counts as agent to agent
IsA2AConnection_Strict(sourceHandle, targetHandle) ==
    sourceHandle = agentNodeSourceHandleId /\ targetHandle = agentNodeTargetHandleId

\* condition of the A2A branch, graph.tsx:308-309
IsA2AConnection(sourceHandle, targetHandle) ==
    IsAgentHandle(sourceHandle) /\ IsAgentHandle(targetHandle)

\* Faulty variant: the external-agent handle accepted at either end
IsExternalConnection_EitherEnd(sourceHandle, targetHandle) ==
    \/ IsAgentHandle(sourceHandle) /\ targetHandle = externalAgentNodeTargetHandleId
    \/ IsAgentHandle(targetHandle) /\ sourceHandle = externalAgentNodeTargetHandleId

\* condition of the A2AExternal branch, graph.tsx:325-326
IsExternalConnection(sourceHandle, targetHandle) ==
    IsAgentHandle(sourceHandle) /\ targetHandle = externalAgentNodeTargetHandleId

\* Faulty variant: every connection named by its sorted endpoints
ConnectionEdgeId_NoSelfLoop(params) == getEdgeId(params.source, params.target)

\* const id = isSelfLoop ? `edge-self-${params.source}` : getEdgeId(source, target)
ConnectionEdgeId(params) ==
    IF params.source = params.target
    THEN "edge-self-" \o params.source
    ELSE getEdgeId(params.source, params.target)

\* let newEdge = { id, ...params }: no type, no selected, no data
BaseEdge(params) ==
    [id |-> ConnectionEdgeId(params),
     source |-> params.source, target |-> params.target,
     sourceHandle |-> params.sourceHandle, targetHandle |-> params.targetHandle,
     type |-> Null, selected |-> FALSE, data |-> <<>>]

\* the if / else-if chain that refines newEdge; data is <<>> (no data) or
\* <<relationships>>
NewEdge(params) ==
    LET base == BaseEdge(params)
        sourceHandle == params.sourceHandle
        targetHandle == params.targetHandle
    IN  IF params.source = params.target
        THEN [base EXCEPT !.type = EdgeTypeSelfLoop, !.selected = TRUE,
                          !.data = <<TransferDefault>>]
        ELSE IF IsA2AConnection(sourceHandle, targetHandle)
        THEN [base EXCEPT !.type = EdgeTypeA2A, !.selected = TRUE,
                          !.data = <<TransferDefault>>]
        ELSE IF IsExternalConnection(sourceHandle, targetHandle)
        THEN [base EXCEPT !.type = EdgeTypeA2AExternal,
                          !.data = <<DelegateDefault>>]
        ELSE base

\* useReactFlow().updateNodeData(id, dataUpdate): merges dataUpdate into the
\* data of the node with that id, if the flow has one
updateNodeData(ns, id, dataUpdate) ==
    [i \in 1..Len(ns) |->
        IF ns[i].id = id
        THEN [ns[i] EXCEPT !.agentId = dataUpdate.agentId,
                           !.toolId = dataUpdate.toolId,
                           !.relationshipId = dataUpdate.relationshipId]
        ELSE ns[i]]

\* "Update MCP node agentId when connecting agent to MCP tool": the node is
\* looked up in the `nodes` the callback closed over
ConnectMcpTarget(ns, captured, params) ==
    IF params.targetHandle = mcpNodeHandleId /\ IsAgentHandle(params.sourceHandle)
    THEN LET found == FindNode(captured, params.target)
         IN  IF found # <<>> /\ found[1].type = NodeTypeMCP
             THEN updateNodeData(ns, found[1].id,
                      [agentId |-> params.source,
                       toolId |-> found[1].toolId,
                       relationshipId |-> Null])
             ELSE ns
    ELSE ns

\* Faulty variant: rejects as soon as either end is the MCP handle
isValidConnection_EitherMcp(params) ==
    IF params.sourceHandle = mcpNodeHandleId \/ params.targetHandle = mcpNodeHandleId
    THEN FALSE
    ELSE TRUE

\* isValidConnection, graph.tsx:365-371
isValidConnection(params) ==
    IF params.sourceHandle = mcpNodeHandleId /\ params.targetHandle = mcpNodeHandleId
    THEN FALSE
    ELSE TRUE

----------------------------------------------------------------------------
(* Selection -> side-pane routing: onSelectionChange, graph.tsx:407-427 *)

\* useSidePane().isOpen: a pane is set in the query state
isOpen == pane # Null

\* const node = nodes.length === 1 ? nodes[0] : null   (<<>> for null)
SelectionNode(selNodes) ==
    IF Cardinality(selNodes) = 1 THEN <<CHOOSE n \in selNodes : TRUE>> ELSE <<>>

\* Faulty variant: only A2A edges open the edge pane
SelectionEdge_A2AOnly(selEdges) ==
    IF Cardinality(selEdges) = 1
       /\ (CHOOSE x \in selEdges : TRUE).type = EdgeTypeA2A
    THEN <<CHOOSE x \in selEdges : TRUE>>
    ELSE <<>>

\* const edge = edges.length === 1 && (type === A2A || type === SelfLoop)
\*                ? edges[0] : null
SelectionEdge(selEdges) ==
    IF Cardinality(selEdges) = 1
       /\ LET e == CHOOSE x \in selEdges : TRUE
          IN  e.type = EdgeTypeA2A \/ e.type = EdgeTypeSelfLoop
    THEN <<CHOOSE x \in selEdges : TRUE>>
    ELSE <<>>

\* Faulty variant: the graph pane whatever isOpen
DefaultPane_AlwaysGraph(open) == "graph"

\* const defaultPane = isOpen ? 'graph' : null
DefaultPane(open) == IF open THEN "graph" ELSE Null

\* Faulty variant: the edge tested before the node
SelectionPane_EdgeFirst(node, edge, defaultPane) ==
    IF edge # <<>> THEN "edge" ELSE IF node # <<>> THEN "node" ELSE defaultPane

\* pane: node ? 'node' : edge ? 'edge' : defaultPane
SelectionPane(node, edge, defaultPane) ==
    IF node # <<>> THEN "node" ELSE IF edge # <<>> THEN "edge" ELSE defaultPane

\* the object onSelectionChange passes to setQueryState
SelectionQueryState(selNodes, selEdges, open) ==
    LET node == SelectionNode(selNodes)
        edge == SelectionEdge(selEdges)
    IN  [pane |-> SelectionPane(node, edge, DefaultPane(open)),
         nodeId |-> IF node # <<>> THEN node[1].id ELSE Null,
         edgeId |-> IF edge # <<>> THEN edge[1].id ELSE Null]

----------------------------------------------------------------------------
(* What the editor is mounted with *)

\* no connection gesture made yet
NoConnection ==
    [made |-> FALSE, source |-> Null, target |-> Null,
     sourceHandle |-> Null, targetHandle |-> Null, valid |-> FALSE]

\* the `graph` prop: undefined (a new graph) or a loaded graph, given here by
\* what deserializeGraphData returns for it
NoGraph == [defined |-> FALSE, id |-> Null, nodes |-> <<>>, edges |-> <<>>]

LoadedGraph ==
    [defined |-> TRUE, id |-> "g1",
     nodes |-> <<Node("a", NodeTypeAgent, FALSE, Null, Null, Null),
                 Node("m", NodeTypeMCP, FALSE, "a", "t1", "r1")>>,
     edges |-> <<[BaseEdge([source |-> "a", target |-> "m",
                            sourceHandle |-> agentNodeSourceHandleId,
                            targetHandle |-> mcpNodeHandleId])
                  EXCEPT !.type = "default"]>>]

Graphs == {NoGraph, LoadedGraph}

\* the store's nodes before setInitial has run: the store's empty default,
\* or what an earlier mount of the loaded graph left in it
PreMountNodes == {<<>>, LoadedGraph.nodes}

\* the navigable state the page is opened with
InitialQueryStates ==
    {[pane |-> Null, nodeId |-> Null, edgeId |-> Null],
     [pane |-> "node", nodeId |-> "m", edgeId |-> Null],
     [pane |-> "node", nodeId |-> "b", edgeId |-> Null],
     [pane |-> "edge", nodeId |-> Null, edgeId |-> "edge-a-m"],
     [pane |-> "edge", nodeId |-> Null, edgeId |-> "edge-a-b"]}

\* what saveGraph resolves with, by the fields onSubmit reads: res.success,
\* res.data, res.data.id, res.data.agents and res.error
SaveResult(success, hasData, id, agents, error) ==
    [success |-> success, hasData |-> hasData, id |-> id, agents |-> agents,
     error |-> error]

NoAgents == [a \in {} |-> Null]

\* no save result resumed onSubmit in the last step
NoHandled ==
    [seq |-> 0, existingId |-> Null, nodes |-> <<>>, edges |-> <<>>,
     res |-> SaveResult(FALSE, FALSE, Null, NoAgents, Null)]

\* nothing saved, nothing being saved
SaveIdle ==
    /\ metadataId = Null
    /\ errors = Null
    /\ inflight = <<>>
    /\ issued = 0
    /\ saveCalls = 0
    /\ navigating = Null
    /\ handled = NoHandled
    /\ toast = {}
    /\ thrown = FALSE

\* no fit-view effect has run
NoEffect == [deps |-> FALSE, timer |-> 0]

\* the fit-view timers left out of account
TimersIdle ==
    /\ showPlayground = FALSE
    /\ timers = {}
    /\ paneEffect = NoEffect
    /\ playgroundEffect = NoEffect
    /\ timerSeq = 0
    /\ tornDown = FALSE
    /\ cancelled = {}
    /\ lateFitView = FALSE

\* no API request made yet
NoRequest ==
    [plane |-> Null, baseUrl |-> Null,
     fetched |-> [network |-> FALSE, ok |-> FALSE, status |-> 0, json |-> FALSE,
                  body |-> Null],
     outcome |-> [kind |-> Null, status |-> 0, code |-> Null]]

\* the module of part_001 as loaded, part_001:14-17
ApiLoaded ==
    /\ INKEEP_AGENTS_MANAGE_API_URL = Null
    /\ INKEEP_AGENTS_RUN_API_URL = Null
    /\ hasWarnedManageApi = FALSE
    /\ hasWarnedRunApi = FALSE
    /\ warnings = [manage |-> 0, run |-> 0]
    /\ requests = 0
    /\ lastRequest = NoRequest

\* the API layer left out of account
ApiIdle ==
    /\ ApiLoaded
    /\ env = [manage |-> Null, run |-> Null]

Init ==
    /\ graph = NoGraph
    /\ SaveIdle
    /\ renders = 0
    /\ setInitialCalls = 0
    /\ TimersIdle
    /\ ApiIdle
    /\ mounted = FALSE
    /\ nodes \in PreMountNodes
    /\ edges = <<>>
    /\ dirty = FALSE
    /\ \E q \in InitialQueryStates :
          pane = q.pane /\ nodeId = q.nodeId /\ edgeId = q.edgeId
    /\ closureNodes = <<>>
    /\ rafQueue = <<>>
    /\ connection = NoConnection
    /\ lastOp = "init"

----------------------------------------------------------------------------
(* Mount: first render and the two run-once effects, graph.tsx:99-110, 139-147,
   199, 203-260 *)

\* openGraphPane() of useSidePane
OpenGraphPaneState == [pane |-> "graph", nodeId |-> Null, edgeId |-> Null]

\* the effect at graph.tsx:217-260, as the query state it leaves; q is the
\* query state of the first render
MountQueryState(g, gn, ge, q) ==
    IF ~g.defined THEN OpenGraphPaneState
    ELSE LET q1 == IF q.nodeId = Null /\ q.edgeId = Null
                   THEN OpenGraphPaneState ELSE q
             q2 == IF q.nodeId # Null /\ q.nodeId \notin NodeIdsOf(gn)
                   THEN [q1 EXCEPT !.nodeId = Null, !.pane = "graph"] ELSE q1
         IN  IF q.edgeId # Null /\ q.edgeId \notin EdgeIdsOf(ge)
             THEN [q2 EXCEPT !.edgeId = Null, !.pane = "graph"] ELSE q2

Mount ==
    /\ ~mounted
    /\ \E g \in Graphs, freshId \in NanoIds :
          LET \* graph ? deserializeGraphData(graph) : {initialNodes, initialEdges}
              gn == IF g.defined THEN g.nodes
                    ELSE <<Node(freshId, NodeTypeAgent, FALSE, Null, Null, Null)>>
              ge == g.edges
              q  == [pane |-> pane, nodeId |-> nodeId, edgeId |-> edgeId]
              q3 == MountQueryState(g, gn, ge, q)
          IN  \* the callback of the first render keeps that render's nodes
              /\ closureNodes' = nodes
              \* setInitial(graphNodes, graphEdges, ...), then the selection
              \* the second effect applies when the graph and the id are there
              /\ nodes' = IF g.defined /\ nodeId # Null
                          THEN SelectNodes(gn, {nodeId}) ELSE gn
              /\ edges' = IF g.defined /\ edgeId # Null
                          THEN SelectEdges(ge, {edgeId}) ELSE ge
              /\ pane' = q3.pane /\ nodeId' = q3.nodeId /\ edgeId' = q3.edgeId
              /\ graph' = g
              \* extractGraphMetadata(graph)
              /\ metadataId' = g.id
    /\ mounted' = TRUE
    /\ dirty' = FALSE
    /\ lastOp' = "mount"
    /\ connection' = NoConnection
    /\ UNCHANGED rafQueue
    /\ UNCHANGED <<errors, inflight, issued, saveCalls, navigating, handled, toast,
                   thrown>>
    /\ setInitialCalls' = setInitialCalls + 1
    /\ UNCHANGED <<renders, timerVars, apiVars>>

----------------------------------------------------------------------------
(* Drop-to-create: onDrop, graph.tsx:378-405 *)

\* clearSelection() of the store, then AddNodeCommand(newNode) through the
\* command manager
onDrop ==
    /\ mounted
    /\ Len(nodes) < MaxNodes
    /\ \E type \in NodeTypes, id \in NanoIds \ NodeIdsOf(nodes) :
          nodes' = Append(SelectNodes(nodes, {}),
                          Node(id, type, TRUE, Null, Null, Null))
    /\ edges' = SelectEdges(edges, {})
    /\ dirty' = TRUE
    /\ lastOp' = "onDrop"
    /\ UNCHANGED <<mounted, pane, nodeId, edgeId, closureNodes, rafQueue>>
    /\ connection' = NoConnection
    /\ UNCHANGED <<saveVars, renderVars, timerVars, apiVars>>

----------------------------------------------------------------------------
(* Connecting: isValidConnection, then onConnectWrapped, then the animation
   frame that executes AddPreparedEdgeCommand *)

onConnectWrapped(params) ==
    /\ dirty' = TRUE                                         \* markUnsaved()
    /\ nodes' = ConnectMcpTarget(nodes, closureNodes, params)
    /\ rafQueue' = Append(rafQueue, NewEdge(params))         \* requestAnimationFrame
    /\ lastOp' = "onConnect"
    /\ UNCHANGED <<mounted, edges, pane, nodeId, edgeId, closureNodes>>

\* A connection gesture between two handles of nodes of the flow: the flow
\* asks isValidConnection and calls onConnect only when it answers true.
Connect ==
    /\ mounted
    /\ Len(rafQueue) < MaxRaf
    /\ Len(edges) + Len(rafQueue) < MaxEdges
    /\ \E s \in Range(nodes), t \in Range(nodes) :
       \E sourceHandle \in HandlesOf(s.type), targetHandle \in HandlesOf(t.type) :
          LET source == s.id
              target == t.id
              params == [source |-> source, target |-> target,
                         sourceHandle |-> sourceHandle,
                         targetHandle |-> targetHandle]
          IN  /\ connection' = [made |-> TRUE, source |-> source, target |-> target,
                                sourceHandle |-> sourceHandle,
                                targetHandle |-> targetHandle,
                                valid |-> isValidConnection(params)]
              /\ IF isValidConnection(params)
                 THEN onConnectWrapped(params)
                 ELSE /\ lastOp' = "isValidConnection"
                      /\ UNCHANGED <<mounted, nodes, edges, dirty, pane, nodeId,
                                     edgeId, closureNodes, rafQueue>>
    /\ UNCHANGED <<saveVars, renderVars, timerVars, apiVars>>

\* AddPreparedEdgeCommand(newEdge, {deselectOtherEdgesIfA2A: true}).execute()
AddPreparedEdge(es, edge) ==
    LET base == IF edge.type = EdgeTypeA2A THEN SelectEdges(es, {}) ELSE es
    IN  IF edge.id \in EdgeIdsOf(es) THEN base ELSE Append(base, edge)

AnimationFrame ==
    /\ rafQueue # <<>>
    /\ edges' = AddPreparedEdge(edges, Head(rafQueue))
    /\ rafQueue' = Tail(rafQueue)
    /\ dirty' = TRUE
    /\ lastOp' = "AddPreparedEdgeCommand"
    /\ UNCHANGED <<mounted, nodes, pane, nodeId, edgeId, closureNodes>>
    /\ connection' = NoConnection
    /\ UNCHANGED <<saveVars, renderVars, timerVars, apiVars>>

----------------------------------------------------------------------------
(* Selection and the side pane *)

\* The user changes the selection (the store applies the select changes of
\* onNodesChange / onEdgesChange) and the flow reports the selected nodes and
\* edges to onSelectionChange.
onSelectionChange ==
    /\ mounted
    /\ \E selN \in SUBSET NodeIdsOf(nodes), selE \in SUBSET EdgeIdsOf(edges) :
          LET ns == SelectNodes(nodes, selN)
              es == SelectEdges(edges, selE)
              q  == SelectionQueryState(SelectedNodes(ns), SelectedEdges(es), isOpen)
          IN  /\ nodes' = ns
              /\ edges' = es
              /\ pane' = q.pane /\ nodeId' = q.nodeId /\ edgeId' = q.edgeId
    /\ lastOp' = "onSelectionChange"
    /\ UNCHANGED <<mounted, dirty, closureNodes, rafQueue>>
    /\ connection' = NoConnection
    /\ UNCHANGED <<saveVars, renderVars, timerVars, apiVars>>

\* graph.tsx:435-443
closeSidePane ==
    /\ mounted
    /\ edges' = SelectEdges(edges, {})
    /\ nodes' = SelectNodes(nodes, {})
    /\ pane' = Null /\ nodeId' = Null /\ edgeId' = Null
    /\ lastOp' = "closeSidePane"
    /\ UNCHANGED <<mounted, dirty, closureNodes, rafQueue>>
    /\ connection' = NoConnection
    /\ UNCHANGED <<saveVars, renderVars, timerVars, apiVars>>

\* graph.tsx:445-453
backToGraph ==
    /\ mounted
    /\ edges' = SelectEdges(edges, {})
    /\ nodes' = SelectNodes(nodes, {})
    /\ pane' = "graph" /\ nodeId' = Null /\ edgeId' = Null
    /\ lastOp' = "backToGraph"
    /\ UNCHANGED <<mounted, dirty, closureNodes, rafQueue>>
    /\ connection' = NoConnection
    /\ UNCHANGED <<saveVars, renderVars, timerVars, apiVars>>

\* the toolbar's toggleSidePane while the pane is closed, graph.tsx:673
openGraphPane ==
    /\ mounted
    /\ ~isOpen
    /\ pane' = OpenGraphPaneState.pane
    /\ nodeId' = OpenGraphPaneState.nodeId
    /\ edgeId' = OpenGraphPaneState.edgeId
    /\ lastOp' = "openGraphPane"
    /\ UNCHANGED <<mounted, nodes, edges, dirty, closureNodes, rafQueue>>
    /\ connection' = NoConnection
    /\ UNCHANGED <<saveVars, renderVars, timerVars, apiVars>>

\* graph.tsx:455-484: called with the id an error of the save names.  The
\* node is looked up in the nodes of the current render; without a match
\* nothing happens.
handleNavigateToNode ==
    /\ mounted
    /\ \E id \in Ids :
          LET targetNode == FindNode(nodes, id)
          IN  /\ targetNode # <<>>
              /\ nodes' = SelectNodes(nodes, {targetNode[1].id})
              /\ edges' = SelectEdges(edges, {})
              /\ pane' = "node" /\ nodeId' = targetNode[1].id /\ edgeId' = Null
    /\ lastOp' = "handleNavigateToNode"
    /\ UNCHANGED <<mounted, dirty, closureNodes, rafQueue>>
    /\ connection' = NoConnection
    /\ UNCHANGED <<saveVars, renderVars, timerVars, apiVars>>

\* graph.tsx:486-511
handleNavigateToEdge ==
    /\ mounted
    /\ \E targetEdge \in Range(edges) :
          /\ edges' = SelectEdges(edges, {targetEdge.id})
          /\ nodes' = SelectNodes(nodes, {})
          /\ pane' = "edge" /\ nodeId' = Null /\ edgeId' = targetEdge.id
    /\ lastOp' = "handleNavigateToEdge"
    /\ UNCHANGED <<mounted, dirty, closureNodes, rafQueue>>
    /\ connection' = NoConnection
    /\ UNCHANGED <<saveVars, renderVars, timerVars, apiVars>>

----------------------------------------------------------------------------

Next ==
    \/ Mount
    \/ onDrop
    \/ Connect
    \/ AnimationFrame
    \/ onSelectionChange
    \/ closeSidePane
    \/ backToGraph
    \/ openGraphPane

Spec == Init /\ [][Next]_vars

\* The editor with the selection and the side pane left alone: mounting,
\* dropping nodes and connecting them.
NextConnect ==
    \/ Mount
    \/ onDrop
    \/ Connect
    \/ AnimationFrame

SpecConnect == Init /\ [][NextConnect]_vars

\* The editor with its side pane: mounting, connecting, selecting, and the
\* five operations that set the navigable state.
NextNavigate ==
    \/ Mount
    \/ Connect
    \/ AnimationFrame
    \/ onSelectionChange
    \/ closeSidePane
    \/ backToGraph
    \/ handleNavigateToNode
    \/ handleNavigateToEdge

SpecNavigate == Init /\ [][NextNavigate]_vars

----------------------------------------------------------------------------
(* Saving: onSubmit, graph.tsx:513-635.  A call runs up to `await
   saveGraph(...)`, is suspended there, and is resumed with the result. *)

SeqsUpTo(S, n) == UNION {[1..k -> S] : k \in 0..n}

\* an entry of an agent's canUse list in the saved graph
CanUseEntry(toolId, agentToolRelationId) ==
    [toolId |-> toolId, agentToolRelationId |-> agentToolRelationId]

\* canUse lists: none, one, two or three relationships of tool t1, one of
\* another tool first, one without an id first
CanUseLists ==
    {<<>>,
     <<CanUseEntry("t1", "r1")>>,
     <<CanUseEntry("t1", "r1"), CanUseEntry("t1", "r2")>>,
     <<CanUseEntry("t1", "r1"), CanUseEntry("t1", "r2"), CanUseEntry("t1", "r3")>>,
     <<CanUseEntry("t2", "r4"), CanUseEntry("t1", "r2")>>,
     <<CanUseEntry("t1", Null), CanUseEntry("t1", "r1")>>}

\* an agent of the saved graph: with a canUse list, or (an external agent)
\* without one
AgentEntries ==
    {[hasCanUse |-> FALSE, canUse |-> <<>>]}
        \cup {[hasCanUse |-> TRUE, canUse |-> l] : l \in CanUseLists}

\* res.data.agents: the saved graph knows agent "a" or no agent at all
SavedAgents == {NoAgents} \cup {[x \in {"a"} |-> e] : e \in AgentEntries}

\* the id the backend gives a graph saved without one
NewGraphId == "g2"

\* res.error: one the parser understands, one it does not
SaveErrors == {"E1", "garbled"}

\* what saveGraph may resolve with for a call that passed existingId
SaveResultsFor(existingId) ==
    LET id == IF existingId = Null THEN NewGraphId ELSE existingId
    IN  {SaveResult(FALSE, FALSE, Null, NoAgents, e) : e \in SaveErrors}
            \cup {SaveResult(TRUE, FALSE, Null, NoAgents, Null)}
            \cup {SaveResult(TRUE, TRUE, id, ag, Null) : ag \in SavedAgents}

\* parseGraphValidationErrors(res.error): the summary, or an exception
parseGraphValidationErrors(error) ==
    IF error = "garbled" THEN [threw |-> TRUE, summary |-> Null]
    ELSE [threw |-> FALSE, summary |-> "summary-" \o error]

\* Faulty variant: the first unprocessed relationship of the agent is taken,
\* whatever tool it is for
RECURSIVE FindMatchingRelationship_AnyTool(_, _, _)
FindMatchingRelationship_AnyTool(canUse, toolId, processedRelationships) ==
    IF canUse = <<>> THEN <<>>
    ELSE LET tool == Head(canUse)
         IN  IF /\ tool.agentToolRelationId # Null
                /\ tool.agentToolRelationId \notin processedRelationships
             THEN <<tool>>
             ELSE FindMatchingRelationship_AnyTool(Tail(canUse), toolId,
                                                   processedRelationships)

\* canUse.find(tool => tool.toolId === toolId && tool.agentToolRelationId &&
\*                     !processedRelationships.has(tool.agentToolRelationId)),
\* <<>> for undefined
RECURSIVE FindMatchingRelationship(_, _, _)
FindMatchingRelationship(canUse, toolId, processedRelationships) ==
    IF canUse = <<>> THEN <<>>
    ELSE LET tool == Head(canUse)
         IN  IF /\ tool.toolId = toolId
                /\ tool.agentToolRelationId # Null
                /\ tool.agentToolRelationId \notin processedRelationships
             THEN <<tool>>
             ELSE FindMatchingRelationship(Tail(canUse), toolId,
                                           processedRelationships)

\* The updater given to setNodes at graph.tsx:556-596: currentNodes.map(...)
\* in array order, processedRelationships growing as ids are handed out.
\* `'canUse' in res.data.agents[agentId]` throws a TypeError when the agents
\* map has no entry for agentId.
RECURSIVE ReconcileNodes(_, _, _)
ReconcileNodes(ns, agents, processedRelationships) ==
    IF ns = <<>> THEN [threw |-> FALSE, nodes |-> <<>>]
    ELSE LET node == Head(ns)
             Then(n, processed) ==
                 LET rest == ReconcileNodes(Tail(ns), agents, processed)
                 IN  [threw |-> rest.threw,
                      nodes |-> IF rest.threw THEN <<>> ELSE <<n>> \o rest.nodes]
         IN  IF ~(node.type = NodeTypeMCP /\ node.agentId # Null
                    /\ node.toolId # Null)
             THEN Then(node, processedRelationships)
             ELSE IF node.relationshipId # Null
             THEN Then(node, processedRelationships)
             ELSE IF node.agentId \notin DOMAIN agents
             THEN [threw |-> TRUE, nodes |-> <<>>]
             ELSE LET agent == agents[node.agentId]
                      matching ==
                          IF agent.hasCanUse
                          THEN FindMatchingRelationship(agent.canUse, node.toolId,
                                                        processedRelationships)
                          ELSE <<>>
                  IN  IF matching # <<>>
                      THEN Then([node EXCEPT !.relationshipId =
                                               matching[1].agentToolRelationId],
                                processedRelationships
                                    \cup {matching[1].agentToolRelationId})
                      ELSE Then(node, processedRelationships)

\* serializeGraphData(nodes, edges, metadata, ...): the nodes and edges that
\* are sent, without the selection, which is not persisted
SerializedNodes(ns) == SelectNodes(ns, {})
SerializedEdges(es) == SelectEdges(es, {})

\* Faulty variant: a warning ends the call before saveGraph
onSubmitStart_WarningBlocks(warning) ==
    IF warning
    THEN /\ toast' = {"orphaned tools"}
         /\ UNCHANGED <<inflight, saveCalls>>
    ELSE /\ toast' = {}
         /\ saveCalls' = saveCalls + 1
         /\ inflight' = Append(inflight,
                               [seq |-> issued + 1, existingId |-> graph.id,
                                nodes |-> SerializedNodes(nodes),
                                edges |-> SerializedEdges(edges)])

\* graph.tsx:515-542: toast.warning when detectOrphanedToolsAndGetWarning
\* gave a warning, then serializeGraphData and the call of saveGraph with
\* graph?.id
onSubmitStart(warning) ==
    /\ toast' = IF warning THEN {"orphaned tools"} ELSE {}
    /\ saveCalls' = saveCalls + 1
    /\ inflight' = Append(inflight,
                          [seq |-> issued + 1, existingId |-> graph.id,
                           nodes |-> SerializedNodes(nodes),
                           edges |-> SerializedEdges(edges)])

\* graph.tsx:513-542: onSubmit up to the await
onSubmit ==
    /\ mounted
    /\ issued < MaxSaves
    /\ issued' = issued + 1
    /\ \E warning \in BOOLEAN : onSubmitStart(warning)
    /\ handled' = NoHandled
    /\ thrown' = FALSE
    /\ lastOp' = "onSubmit"
    /\ connection' = NoConnection
    /\ UNCHANGED <<mounted, nodes, edges, dirty, pane, nodeId, edgeId,
                   closureNodes, rafQueue>>
    /\ UNCHANGED <<graph, metadataId, errors, navigating>>
    /\ UNCHANGED <<renderVars, timerVars, apiVars>>

RemoveAt(s, i) == SubSeq(s, 1, i - 1) \o SubSeq(s, i + 1, Len(s))

\* graph.tsx:544-602, the call `call` resumed with a success
onSubmitSuccess(call, res) ==
    LET reconciled == IF res.hasData THEN ReconcileNodes(nodes, res.agents, {})
                      ELSE [threw |-> FALSE, nodes |-> nodes]
    IN  /\ errors' = Null                                    \* clearErrors()
        /\ toast' = {"Graph saved"}
        /\ dirty' = FALSE                                    \* markSaved()
        /\ thrown' = reconciled.threw
        /\ nodes' = IF reconciled.threw THEN nodes ELSE reconciled.nodes
        /\ IF ~reconciled.threw /\ call.existingId = Null /\ res.hasData
              /\ res.id # Null
           THEN /\ metadataId' = res.id                      \* setMetadata('id', ...)
                /\ navigating' = res.id                      \* router.push(...)
           ELSE UNCHANGED <<metadataId, navigating>>

\* Faulty variant: the catch branch also drops the stored error summary
onSubmitCatch_ClearsErrors ==
    /\ toast' = {"Failed to save graph"}
    /\ errors' = Null

\* graph.tsx:611-616, the catch around the parsing of res.error:
\* console.error and the generic notification
onSubmitCatch ==
    /\ toast' = {"Failed to save graph"}
    /\ UNCHANGED errors

\* Faulty variant: a failure whose error parses marks the graph saved
onSubmitFailure_MarksSaved(res) ==
    LET parsed == parseGraphValidationErrors(res.error)
    IN  /\ IF parsed.threw
           THEN onSubmitCatch /\ UNCHANGED dirty
           ELSE /\ errors' = parsed.summary
                /\ toast' = {"validation errors"}
                /\ dirty' = FALSE
        /\ thrown' = FALSE
        /\ UNCHANGED <<nodes, metadataId, navigating>>

\* graph.tsx:603-617, the call resumed with a failure
onSubmitFailure(res) ==
    LET parsed == parseGraphValidationErrors(res.error)
    IN  /\ IF parsed.threw
           THEN onSubmitCatch
           ELSE /\ errors' = parsed.summary                  \* setErrors(...)
                /\ toast' = {"validation errors"}
        /\ thrown' = FALSE
        /\ UNCHANGED <<nodes, dirty, metadataId, navigating>>

\* saveGraph resolves and a suspended call of onSubmit runs to its end
onSubmitResumes ==
    /\ \E i \in 1..Len(inflight) :
       \E res \in SaveResultsFor(inflight[i].existingId) :
          /\ inflight' = RemoveAt(inflight, i)
          /\ handled' = [seq |-> inflight[i].seq,
                         existingId |-> inflight[i].existingId,
                         nodes |-> inflight[i].nodes,
                         edges |-> inflight[i].edges, res |-> res]
          /\ IF res.success THEN onSubmitSuccess(inflight[i], res)
             ELSE onSubmitFailure(res)
    /\ lastOp' = "onSubmitResumes"
    /\ connection' = NoConnection
    /\ UNCHANGED <<mounted, edges, pane, nodeId, edgeId, closureNodes, rafQueue>>
    /\ UNCHANGED <<graph, issued, saveCalls>>
    /\ UNCHANGED <<renderVars, timerVars, apiVars>>

\* router.push has taken the browser to the page of the saved graph: the
\* editor is rendered with that graph as its `graph` prop and setInitial runs
NavigationCompletes ==
    /\ navigating # Null
    /\ graph' = [defined |-> TRUE, id |-> navigating, nodes |-> nodes,
                 edges |-> edges]
    /\ metadataId' = navigating
    /\ navigating' = Null
    /\ dirty' = FALSE
    /\ handled' = NoHandled
    /\ toast' = {}
    /\ thrown' = FALSE
    /\ lastOp' = "navigation"
    /\ connection' = NoConnection
    /\ UNCHANGED <<mounted, nodes, edges, pane, nodeId, edgeId, closureNodes,
                   rafQueue>>
    /\ UNCHANGED <<errors, inflight, issued, saveCalls>>
    /\ UNCHANGED <<renderVars, timerVars, apiVars>>

\* MCP nodes as the editor can hold them when a save is made: connected to an
\* agent and a tool and not saved yet, saved before, or just dropped
SaveMcpData ==
    {[agentId |-> "a", toolId |-> "t1", relationshipId |-> Null],
     [agentId |-> "b", toolId |-> "t1", relationshipId |-> Null],
     [agentId |-> "a", toolId |-> "t1", relationshipId |-> "r1"],
     [agentId |-> Null, toolId |-> Null, relationshipId |-> Null]}

SaveMcpIds == <<"m", "b", "a-b", "m-b", "b-m">>

SaveNodeLists ==
    {<<Node("a", NodeTypeAgent, FALSE, Null, Null, Null)>>
        \o [i \in 1..Len(d) |->
               Node(SaveMcpIds[i], NodeTypeMCP, FALSE, d[i].agentId, d[i].toolId,
                    d[i].relationshipId)] :
     d \in SeqsUpTo(SaveMcpData, MaxSaveMcp)}

\* a mounted editor with unsaved changes, for a new graph or a loaded one
InitSave ==
    /\ mounted = TRUE
    /\ nodes \in SaveNodeLists
    /\ edges = <<>>
    /\ dirty = TRUE
    /\ pane = "graph" /\ nodeId = Null /\ edgeId = Null
    /\ closureNodes = <<>>
    /\ rafQueue = <<>>
    /\ connection = NoConnection
    /\ lastOp = "mount"
    /\ graph \in {NoGraph, [LoadedGraph EXCEPT !.nodes = nodes, !.edges = <<>>]}
    /\ metadataId = graph.id
    /\ errors = Null
    /\ inflight = <<>>
    /\ issued = 0
    /\ saveCalls = 0
    /\ navigating = Null
    /\ handled = NoHandled
    /\ toast = {}
    /\ thrown = FALSE
    /\ renders = 0
    /\ setInitialCalls = 1
    /\ TimersIdle
    /\ ApiIdle

NextSave ==
    \/ onSubmit
    \/ onSubmitResumes
    \/ NavigationCompletes

SpecSave == InitSave /\ [][NextSave]_vars

\* Saving while the graph is being edited: the editor from its mount on, with
\* drops and connections between the calls of onSubmit and their results.
\* the editor mounted for a new graph: the one agent node of initialNodes
InitSaveEdit ==
    /\ mounted = TRUE
    /\ \E id \in NanoIds :
          nodes = <<Node(id, NodeTypeAgent, FALSE, Null, Null, Null)>>
    /\ edges = <<>>
    /\ dirty = FALSE
    /\ pane = "graph" /\ nodeId = Null /\ edgeId = Null
    /\ closureNodes = <<>>
    /\ rafQueue = <<>>
    /\ connection = NoConnection
    /\ lastOp = "mount"
    /\ graph = NoGraph
    /\ SaveIdle
    /\ renders = 0
    /\ setInitialCalls = 1
    /\ TimersIdle
    /\ ApiIdle

NextSaveEdit ==
    \/ onDrop
    \/ Connect
    \/ AnimationFrame
    \/ (issued < MaxEditSaves /\ onSubmit)
    \/ onSubmitResumes

SpecSaveEdit == InitSaveEdit /\ [][NextSaveEdit]_vars

----------------------------------------------------------------------------
(* Rendering again: the `graph` prop and the lookups arrive anew (a refetch
   of the page's data), the store changes.  Effects run again only when their
   dependency lists differ from those of the render before. *)

\* Faulty variant: the effect depends on what it reads
SetInitialDeps_Exhaustive(g, version) == <<g, version>>

\* the dependency list of the effect at graph.tsx:204-214; version stands for
\* the identity of the prop objects of a render
SetInitialDeps(g, version) == <<>>

\* what a refetch can deliver in place of the graph g
RefetchedGraphs(g) ==
    IF g.defined
    THEN {g, [g EXCEPT !.nodes = SubSeq(g.nodes, 1, 1), !.edges = <<>>]}
    ELSE {g}

\* graphNodes, graph.tsx:139-142; the store keeps initialNodes' one node
\* first, as nothing removes it
GraphNodesOf(g) ==
    IF g.defined THEN g.nodes
    ELSE <<Node(nodes[1].id, NodeTypeAgent, FALSE, Null, Null, Null)>>

Rerender ==
    /\ mounted
    /\ renders < MaxRenders
    /\ renders' = renders + 1
    /\ \E g \in RefetchedGraphs(graph) :
          /\ graph' = g
          /\ IF SetInitialDeps(g, renders') # SetInitialDeps(graph, renders)
             THEN \* setInitial(graphNodes, graphEdges, extractGraphMetadata(graph), ...)
                  /\ nodes' = GraphNodesOf(g)
                  /\ edges' = g.edges
                  /\ metadataId' = g.id
                  /\ dirty' = FALSE
                  /\ setInitialCalls' = setInitialCalls + 1
             ELSE UNCHANGED <<nodes, edges, metadataId, dirty, setInitialCalls>>
    /\ lastOp' = "render"
    /\ connection' = NoConnection
    /\ UNCHANGED <<mounted, pane, nodeId, edgeId, closureNodes, rafQueue>>
    /\ UNCHANGED <<errors, inflight, issued, saveCalls, navigating, handled, toast,
                   thrown>>
    /\ UNCHANGED <<timerVars, apiVars>>

NextRender ==
    \/ Mount
    \/ Rerender
    \/ onDrop

SpecRender == Init /\ [][NextRender]_vars

----------------------------------------------------------------------------
(* The fit-view effects, graph.tsx:262-282.  An effect runs after a render
   whose isOpen (showPlayground) differs from that of the render it last ran
   for: first the cleanup of the earlier run, then the effect itself. *)

\* Faulty variant: the cleanup leaves the timer alone
ClearTimeout_Forgets(ts, id) == ts

\* clearTimeout(timer)
ClearTimeout(ts, id) == {t \in ts : t.id # id}

\* setTimeout(() => fitView(...), 350), for the effect of `trigger`
SetTimeout(ts, id, trigger) == ts \cup {[id |-> id, trigger |-> trigger]}

\* graph.tsx:264-271
SidePaneFitViewEffect ==
    /\ mounted
    /\ isOpen # paneEffect.deps
    /\ timerSeq < MaxTimers
    /\ timers' = SetTimeout(ClearTimeout(timers, paneEffect.timer),
                            timerSeq + 1, "isOpen")
    /\ cancelled' = {t \in timers : t.id = paneEffect.timer}
    /\ paneEffect' = [deps |-> isOpen, timer |-> timerSeq + 1]
    /\ timerSeq' = timerSeq + 1
    /\ lastOp' = "fitViewEffect"
    /\ connection' = NoConnection
    /\ UNCHANGED <<mounted, nodes, edges, dirty, pane, nodeId, edgeId,
                   closureNodes, rafQueue>>
    /\ UNCHANGED <<showPlayground, playgroundEffect, tornDown, lateFitView>>
    /\ UNCHANGED <<saveVars, renderVars, apiVars>>

\* graph.tsx:275-282
PlaygroundFitViewEffect ==
    /\ mounted
    /\ showPlayground # playgroundEffect.deps
    /\ timerSeq < MaxTimers
    /\ timers' = SetTimeout(ClearTimeout(timers, playgroundEffect.timer),
                            timerSeq + 1, "showPlayground")
    /\ cancelled' = {t \in timers : t.id = playgroundEffect.timer}
    /\ playgroundEffect' = [deps |-> showPlayground, timer |-> timerSeq + 1]
    /\ timerSeq' = timerSeq + 1
    /\ lastOp' = "fitViewEffect"
    /\ connection' = NoConnection
    /\ UNCHANGED <<mounted, nodes, edges, dirty, pane, nodeId, edgeId,
                   closureNodes, rafQueue>>
    /\ UNCHANGED <<showPlayground, paneEffect, tornDown, lateFitView>>
    /\ UNCHANGED <<saveVars, renderVars, apiVars>>

\* a pending timer expires and its callback calls fitView
FitViewTimerFires ==
    /\ \E t \in timers : timers' = timers \ {t}
    /\ lateFitView' = (lateFitView \/ tornDown)
    /\ lastOp' = "fitView"
    /\ connection' = NoConnection
    /\ UNCHANGED <<mounted, nodes, edges, dirty, pane, nodeId, edgeId,
                   closureNodes, rafQueue>>
    /\ UNCHANGED <<showPlayground, paneEffect, playgroundEffect, timerSeq,
                   tornDown, cancelled>>
    /\ UNCHANGED <<saveVars, renderVars, apiVars>>

\* the toolbar's setShowPlayground, graph.tsx:674-677 (the preview button is
\* disabled while the graph has no id, graph.tsx:672)
ToolbarShowPlayground ==
    /\ mounted
    /\ graph.id # Null
    /\ edges' = SelectEdges(edges, {})                       \* closeSidePane()
    /\ nodes' = SelectNodes(nodes, {})
    /\ pane' = Null /\ nodeId' = Null /\ edgeId' = Null
    /\ showPlayground' = TRUE
    /\ lastOp' = "setShowPlayground"
    /\ connection' = NoConnection
    /\ UNCHANGED <<mounted, dirty, closureNodes, rafQueue>>
    /\ UNCHANGED <<timers, paneEffect, playgroundEffect, timerSeq, tornDown,
                   cancelled, lateFitView>>
    /\ UNCHANGED <<saveVars, renderVars, apiVars>>

\* the playground closes itself with the setShowPlayground it was given,
\* graph.tsx:703-711
PlaygroundCloses ==
    /\ mounted
    /\ showPlayground
    /\ showPlayground' = FALSE
    /\ lastOp' = "setShowPlayground"
    /\ connection' = NoConnection
    /\ UNCHANGED <<mounted, nodes, edges, dirty, pane, nodeId, edgeId,
                   closureNodes, rafQueue>>
    /\ UNCHANGED <<timers, paneEffect, playgroundEffect, timerSeq, tornDown,
                   cancelled, lateFitView>>
    /\ UNCHANGED <<saveVars, renderVars, apiVars>>

\* Flow is unmounted: the cleanups of both effects run
Unmount ==
    /\ mounted
    /\ mounted' = FALSE
    /\ tornDown' = TRUE
    /\ timers' = ClearTimeout(ClearTimeout(timers, paneEffect.timer),
                              playgroundEffect.timer)
    /\ cancelled' = {t \in timers :
                       t.id \in {paneEffect.timer, playgroundEffect.timer}}
    /\ lastOp' = "unmount"
    /\ connection' = NoConnection
    /\ UNCHANGED <<nodes, edges, dirty, pane, nodeId, edgeId, closureNodes,
                   rafQueue>>
    /\ UNCHANGED <<showPlayground, paneEffect, playgroundEffect, timerSeq,
                   lateFitView>>
    /\ UNCHANGED <<saveVars, renderVars, apiVars>>

\* the editor of a loaded graph after its first render: both effects have run
\* once and their timers are pending
InitTimers ==
    /\ mounted = TRUE
    /\ graph = LoadedGraph
    /\ nodes = LoadedGraph.nodes
    /\ edges = LoadedGraph.edges
    /\ dirty = FALSE
    /\ pane \in {Null, "graph"} /\ nodeId = Null /\ edgeId = Null
    /\ closureNodes = <<>>
    /\ rafQueue = <<>>
    /\ connection = NoConnection
    /\ lastOp = "mount"
    /\ metadataId = LoadedGraph.id
    /\ errors = Null
    /\ inflight = <<>>
    /\ issued = 0
    /\ saveCalls = 0
    /\ navigating = Null
    /\ handled = NoHandled
    /\ toast = {}
    /\ thrown = FALSE
    /\ renders = 0
    /\ setInitialCalls = 1
    /\ showPlayground = FALSE
    /\ timers = SetTimeout(SetTimeout({}, 1, "isOpen"), 2, "showPlayground")
    /\ paneEffect = [deps |-> isOpen, timer |-> 1]
    /\ playgroundEffect = [deps |-> FALSE, timer |-> 2]
    /\ timerSeq = 2
    /\ tornDown = FALSE
    /\ cancelled = {}
    /\ lateFitView = FALSE
    /\ ApiIdle

NextTimers ==
    \/ closeSidePane
    \/ openGraphPane
    \/ ToolbarShowPlayground
    \/ PlaygroundCloses
    \/ SidePaneFitViewEffect
    \/ PlaygroundFitViewEffect
    \/ FitViewTimerFires
    \/ Unmount

SpecTimers == InitTimers /\ [][NextTimers]_vars

----------------------------------------------------------------------------
(* The API layer, src/unnamed/part_001 *)

DEFAULT_INKEEP_AGENTS_MANAGE_API_URL == "http://localhost:3002"
DEFAULT_INKEEP_AGENTS_RUN_API_URL == "http://localhost:3003"

\* process.env.X: undefined, the empty string, or a URL
EnvValues == {Null, "", "https://api.example"}

\* !v for a value of process.env
Falsy(v) == v \in {Null, ""}

\* Faulty variant: the URL is resolved anew by every call
getManageApiUrl_NoCache ==
    [url  |-> IF Falsy(env.manage) THEN DEFAULT_INKEEP_AGENTS_MANAGE_API_URL
              ELSE env.manage,
     warn |-> Falsy(env.manage) /\ ~hasWarnedManageApi]

\* part_001:19-32: the URL returned, and whether console.warn is called
getManageApiUrl ==
    IF INKEEP_AGENTS_MANAGE_API_URL = Null
    THEN [url  |-> IF Falsy(env.manage) THEN DEFAULT_INKEEP_AGENTS_MANAGE_API_URL
                   ELSE env.manage,
          warn |-> Falsy(env.manage) /\ ~hasWarnedManageApi]
    ELSE [url |-> INKEEP_AGENTS_MANAGE_API_URL, warn |-> FALSE]

\* part_001:34-47
getRunApiUrl ==
    IF INKEEP_AGENTS_RUN_API_URL = Null
    THEN [url  |-> IF Falsy(env.run) THEN DEFAULT_INKEEP_AGENTS_RUN_API_URL
                   ELSE env.run,
          warn |-> Falsy(env.run) /\ ~hasWarnedRunApi]
    ELSE [url |-> INKEEP_AGENTS_RUN_API_URL, warn |-> FALSE]

\* response bodies
BodyWithError == "{\"error\":{\"code\":\"not_found\"}}"
BodyWithoutError == "{\"message\":\"no\"}"
BodyNull == "null"
BodyNumber == "5"
BodyText == "<html>Bad Gateway</html>"
BodyEmpty == ""
BodyData == "{\"data\":[]}"

Bodies ==
    {BodyWithError, BodyWithoutError, BodyNull, BodyNumber, BodyText, BodyEmpty,
     BodyData}

\* JSON.parse(text) / response.json(): the value by its kind and its `error`
\* member (Null when it has none), or a SyntaxError
JsonParse(text) ==
    CASE text = BodyWithError    -> [threw |-> FALSE, kind |-> "object", error |-> "not_found"]
      [] text = BodyWithoutError -> [threw |-> FALSE, kind |-> "object", error |-> Null]
      [] text = BodyData         -> [threw |-> FALSE, kind |-> "object", error |-> Null]
      [] text = BodyNull         -> [threw |-> FALSE, kind |-> "null", error |-> Null]
      [] text = BodyNumber       -> [threw |-> FALSE, kind |-> "number", error |-> Null]
      [] OTHER                   -> [threw |-> TRUE, kind |-> Null, error |-> Null]

\* what `await fetch(url, ...)` gives: a rejection, or a response
FetchRejected ==
    [network |-> TRUE, ok |-> FALSE, status |-> 0, json |-> FALSE, body |-> Null]

FetchResults ==
    {FetchRejected}
        \cup {[network |-> FALSE, ok |-> TRUE, status |-> st, json |-> j, body |-> b] :
                 st \in {200}, j \in BOOLEAN,
                 b \in {BodyData, BodyNull, BodyText, BodyEmpty}}
        \cup {[network |-> FALSE, ok |-> FALSE, status |-> st, json |-> j, body |-> b] :
                 st \in {404, 502}, j \in BOOLEAN,
                 b \in Bodies \ {BodyData}}

\* how a call ends: a returned value or a thrown error
Returned == [kind |-> "return", status |-> 0, code |-> Null]
Thrown(type) == [kind |-> type, status |-> 0, code |-> Null]
ThrownApiError(code, status) == [kind |-> "ApiError", status |-> status, code |-> code]

\* the body of the try, part_001:64-94
TryFetch(f) ==
    IF f.network THEN Thrown("TypeError")
    ELSE IF ~f.ok
    THEN LET parsed == JsonParse(f.body)
             \* response.json().catch(() => ({error: {code: 'unknown', ...}}))
             errorData == IF parsed.threw
                          THEN [kind |-> "object", error |-> "unknown"]
                          ELSE [kind |-> parsed.kind, error |-> parsed.error]
         IN  \* errorData.error || {code: 'unknown', ...}
             IF errorData.kind = "null" THEN Thrown("TypeError")
             ELSE ThrownApiError(IF errorData.error # Null THEN errorData.error
                                 ELSE "unknown",
                                 f.status)
    ELSE IF f.json
    THEN IF f.body = "" THEN Returned
         ELSE IF JsonParse(f.body).threw THEN Thrown("SyntaxError")
         ELSE Returned
    ELSE Returned

\* part_001:49-109: the try and its catch
makeApiRequestInternal(f) ==
    LET tried == TryFetch(f)
    IN  IF tried.kind \in {"return", "ApiError"} THEN tried
        ELSE ThrownApiError("internal_server_error", 500)

\* part_001:112-117
makeManagementApiRequest ==
    /\ requests < MaxRequests
    /\ requests' = requests + 1
    /\ INKEEP_AGENTS_MANAGE_API_URL' = getManageApiUrl.url
    /\ hasWarnedManageApi' = (hasWarnedManageApi \/ getManageApiUrl.warn)
    /\ warnings' = IF getManageApiUrl.warn
                   THEN [warnings EXCEPT !.manage = @ + 1] ELSE warnings
    /\ \E f \in FetchResults :
          lastRequest' = [plane |-> "manage", baseUrl |-> getManageApiUrl.url,
                          fetched |-> f, outcome |-> makeApiRequestInternal(f)]
    /\ UNCHANGED <<INKEEP_AGENTS_RUN_API_URL, hasWarnedRunApi, env>>
    /\ UNCHANGED <<editorVars, saveVars, renderVars, timerVars>>

\* part_001:120-125
makeAgentsRunApiRequest ==
    /\ requests < MaxRequests
    /\ requests' = requests + 1
    /\ INKEEP_AGENTS_RUN_API_URL' = getRunApiUrl.url
    /\ hasWarnedRunApi' = (hasWarnedRunApi \/ getRunApiUrl.warn)
    /\ warnings' = IF getRunApiUrl.warn
                   THEN [warnings EXCEPT !.run = @ + 1] ELSE warnings
    /\ \E f \in FetchResults :
          lastRequest' = [plane |-> "run", baseUrl |-> getRunApiUrl.url,
                          fetched |-> f, outcome |-> makeApiRequestInternal(f)]
    /\ UNCHANGED <<INKEEP_AGENTS_MANAGE_API_URL, hasWarnedManageApi, env>>
    /\ UNCHANGED <<editorVars, saveVars, renderVars, timerVars>>

\* the process environment is given a value for one of the URL variables
\* between two requests (it is read at each resolution, part_001:22-24)
EnvironmentChanges ==
    /\ \E plane \in {"manage", "run"}, v \in EnvValues :
          /\ v # env[plane]
          /\ env' = [env EXCEPT ![plane] = v]
    /\ UNCHANGED <<INKEEP_AGENTS_MANAGE_API_URL, INKEEP_AGENTS_RUN_API_URL,
                   hasWarnedManageApi, hasWarnedRunApi, warnings, requests,
                   lastRequest>>
    /\ UNCHANGED <<editorVars, saveVars, renderVars, timerVars>>

\* the module loaded in some environment; the editor is left out of account
InitApi ==
    /\ ApiLoaded
    /\ env \in [manage : EnvValues, run : EnvValues]
    /\ mounted = FALSE
    /\ nodes = <<>>
    /\ edges = <<>>
    /\ dirty = FALSE
    /\ pane = Null /\ nodeId = Null /\ edgeId = Null
    /\ closureNodes = <<>>
    /\ rafQueue = <<>>
    /\ connection = NoConnection
    /\ lastOp = "init"
    /\ graph = NoGraph
    /\ SaveIdle
    /\ renders = 0
    /\ setInitialCalls = 0
    /\ TimersIdle

NextApi ==
    \/ makeManagementApiRequest
    \/ makeAgentsRunApiRequest
    \/ EnvironmentChanges

SpecApi == InitApi /\ [][NextApi]_vars

----------------------------------------------------------------------------
(* Properties *)

\* the step just taken was a connection gesture that reached onConnect
Connected == connection.made /\ connection.valid

\* the edge that onConnect handed to requestAnimationFrame in that step
ProducedEdge == rafQueue[Len(rafQueue)]

AgentControlHandles == {agentNodeSourceHandleId, agentNodeTargetHandleId}

OnlyTransferSourceToTarget ==
    [transferTargetToSource |-> FALSE, transferSourceToTarget |-> TRUE,
     delegateTargetToSource |-> FALSE, delegateSourceToTarget |-> FALSE]

OnlyDelegateSourceToTarget ==
    [transferTargetToSource |-> FALSE, transferSourceToTarget |-> FALSE,
     delegateTargetToSource |-> FALSE, delegateSourceToTarget |-> TRUE]

\* C1: a connection between two different nodes whose source and target handle
\* are both agent-control handles (any of the four combinations) produces an
\* A2A edge whose relationships are transferSourceToTarget only.
C1_AgentToAgentIsA2A ==
    (/\ Connected
     /\ connection.source # connection.target
     /\ connection.sourceHandle \in AgentControlHandles
     /\ connection.targetHandle \in AgentControlHandles)
    => /\ ProducedEdge.type = EdgeTypeA2A
       /\ ProducedEdge.data = <<OnlyTransferSourceToTarget>>

\* C1 witness: an A2A edge produced from target handle to source handle
C1_Witness ==
    /\ Connected
    /\ connection.source # connection.target
    /\ connection.sourceHandle = agentNodeTargetHandleId
    /\ connection.targetHandle = agentNodeSourceHandleId
    /\ ProducedEdge.type = EdgeTypeA2A

\* C2: a connection from a node to itself produces, whatever its handles, a
\* SelfLoop edge with id edge-self-<nodeId> and relationships
\* transferSourceToTarget only.
C2_SelfLoopFirst ==
    (Connected /\ connection.source = connection.target)
    => /\ ProducedEdge.type = EdgeTypeSelfLoop
       /\ ProducedEdge.id = "edge-self-" \o connection.source
       /\ ProducedEdge.data = <<OnlyTransferSourceToTarget>>

\* C2 witness: a self-loop drawn between the two agent-control handles, which
\* the agent-to-agent rule would otherwise claim
C2_Witness ==
    /\ Connected
    /\ connection.source = connection.target
    /\ connection.sourceHandle = agentNodeSourceHandleId
    /\ connection.targetHandle = agentNodeTargetHandleId
    /\ ProducedEdge.type = EdgeTypeSelfLoop

\* C3: a connection between two different nodes from an agent-control handle
\* to the external-agent handle produces an A2AExternal edge whose
\* relationships are delegateSourceToTarget only.
C3_AgentToExternalIsA2AExternal ==
    (/\ Connected
     /\ connection.source # connection.target
     /\ connection.sourceHandle \in AgentControlHandles
     /\ connection.targetHandle = externalAgentNodeTargetHandleId)
    => /\ ProducedEdge.type = EdgeTypeA2AExternal
       /\ ProducedEdge.data = <<OnlyDelegateSourceToTarget>>

C3_Witness ==
    /\ Connected
    /\ connection.source # connection.target
    /\ connection.sourceHandle = agentNodeTargetHandleId
    /\ connection.targetHandle = externalAgentNodeTargetHandleId
    /\ ProducedEdge.type = EdgeTypeA2AExternal

\* C4: a connection between two different nodes that is neither agent-control
\* to agent-control nor agent-control to external-agent produces an edge with
\* no type and no relationships payload.
C4_OtherwiseDefaultEdge ==
    (/\ Connected
     /\ connection.source # connection.target
     /\ ~(/\ connection.sourceHandle \in AgentControlHandles
          /\ connection.targetHandle \in AgentControlHandles)
     /\ ~(/\ connection.sourceHandle \in AgentControlHandles
          /\ connection.targetHandle = externalAgentNodeTargetHandleId))
    => /\ ProducedEdge.type = Null
       /\ ProducedEdge.data = <<>>

\* C4 witness: external-agent handle as source, agent handle as target
C4_Witness ==
    /\ Connected
    /\ connection.source # connection.target
    /\ connection.sourceHandle = externalAgentNodeTargetHandleId
    /\ connection.targetHandle \in AgentControlHandles
    /\ ProducedEdge.type = Null
    /\ ProducedEdge.data = <<>>

\* every edge onConnect has produced and that is still in the store or waiting
\* for its animation frame
ProducedEdges == Range(edges) \cup Range(rafQueue)

\* C5: two connections over the same two different nodes, one in each
\* direction, get the same edge id; and two self-loops on one node get the
\* same id whatever their handles.
C5_EdgeIdSymmetric ==
    \A e1 \in ProducedEdges, e2 \in ProducedEdges :
        /\ (/\ e1.source # e1.target
            /\ e1.source = e2.target
            /\ e1.target = e2.source) => e1.id = e2.id
        /\ (/\ e1.source = e1.target
            /\ e2.source = e2.target
            /\ e1.source = e2.source) => e1.id = e2.id

\* C5 witness: an edge in the store and its reverse waiting for its frame
C5_Witness ==
    \E e1 \in Range(edges), e2 \in Range(rafQueue) :
        /\ e1.source # e1.target
        /\ e1.source = e2.target
        /\ e1.target = e2.source
        /\ e1.id = e2.id

\* C6: isValidConnection answers false exactly when source handle and target
\* handle are both the MCP handle, whatever the nodes and the store hold.
C6_OnlyMcpToMcpRejected ==
    connection.made =>
        (connection.valid <=> ~(/\ connection.sourceHandle = mcpNodeHandleId
                                /\ connection.targetHandle = mcpNodeHandleId))

\* C6 witness: a rejected MCP-to-MCP gesture between two different nodes
C6_Witness ==
    /\ connection.made
    /\ ~connection.valid
    /\ connection.source # connection.target
    /\ connection.sourceHandle = mcpNodeHandleId
    /\ connection.targetHandle = mcpNodeHandleId

\* C7: when onConnect runs with an agent-control source handle and the MCP
\* handle as target on an MCP node that is in the store, that node's agentId
\* is the connection's source and its relationshipId is null.
C7_McpTargetGetsAgentId ==
    (/\ Connected
     /\ connection.sourceHandle \in AgentControlHandles
     /\ connection.targetHandle = mcpNodeHandleId)
    => \A i \in 1..Len(nodes) :
          (nodes[i].id = connection.target /\ nodes[i].type = NodeTypeMCP)
          => /\ nodes[i].agentId = connection.source
             /\ nodes[i].relationshipId = Null

\* the nodes and edges a selection change reported: the selected ones of the
\* store right after it
ReportedNodes == SelectedNodes(nodes)
ReportedEdges == SelectedEdges(edges)

\* exactly one edge reported, of type A2A or SelfLoop
OneRoutedEdge ==
    /\ Cardinality(ReportedEdges) = 1
    /\ \A e \in ReportedEdges : e.type \in {EdgeTypeA2A, EdgeTypeSelfLoop}

\* C8: after a selection change that reports exactly one node, the pane is
\* 'node' and nodeId is that node's id.
C8_OneNodeOpensNodePane ==
    (lastOp = "onSelectionChange" /\ Cardinality(ReportedNodes) = 1)
    => /\ pane = "node"
       /\ \A n \in ReportedNodes : nodeId = n.id

\* C8 witness: one node reported together with one A2A edge
C8_Witness ==
    /\ lastOp = "onSelectionChange"
    /\ Cardinality(ReportedNodes) = 1
    /\ Cardinality(ReportedEdges) = 1
    /\ \A e \in ReportedEdges : e.type = EdgeTypeA2A
    /\ pane = "node"

C10_OtherSelectionFallsBack ==
    [][(/\ lastOp' = "onSelectionChange"
        /\ Cardinality(SelectedNodes(nodes')) # 1
        /\ ~(/\ Cardinality(SelectedEdges(edges')) = 1
             /\ \A e \in SelectedEdges(edges') :
                   e.type \in {EdgeTypeA2A, EdgeTypeSelfLoop}))
       => /\ nodeId' = Null
          /\ edgeId' = Null
          /\ pane' = IF pane # Null THEN "graph" ELSE Null]_vars

\* C10 witness: with the side pane closed, a single edge of another type is
\* reported and the pane stays closed
C10_Witness ==
    /\ lastOp = "onSelectionChange"
    /\ ReportedNodes = {}
    /\ Cardinality(ReportedEdges) = 1
    /\ \A e \in ReportedEdges : e.type \notin {EdgeTypeA2A, EdgeTypeSelfLoop}
    /\ pane = Null
    /\ nodeId = Null
    /\ edgeId = Null


----------------------------------------------------------------------------
(* Connecting the agents of a loaded graph: the ids of the edges *)

\* the agents of the loaded graphs, in the order of their nodes
AgentIdLists == {<<"a", "b-m", "a-b", "m">>, <<"self", "x">>, <<"x", "m", "a-b">>}

AgentNodes(ids) ==
    [i \in 1..Len(ids) |-> Node(ids[i], NodeTypeAgent, FALSE, Null, Null, Null)]

\* the editor mounted with a loaded graph of agents and no edges
InitEdgeIds ==
    /\ \E ids \in AgentIdLists :
          /\ graph = [defined |-> TRUE, id |-> "g1", nodes |-> AgentNodes(ids),
                      edges |-> <<>>]
          /\ nodes = AgentNodes(ids)
    /\ metadataId = "g1"
    /\ errors = Null /\ inflight = <<>> /\ issued = 0 /\ saveCalls = 0
    /\ navigating = Null /\ handled = NoHandled /\ toast = {} /\ thrown = FALSE
    /\ renders = 0
    /\ setInitialCalls = 1
    /\ TimersIdle
    /\ ApiIdle
    /\ mounted = TRUE
    /\ edges = <<>>
    /\ dirty = FALSE
    /\ pane = "graph" /\ nodeId = Null /\ edgeId = Null
    /\ closureNodes = <<>>
    /\ rafQueue = <<>>
    /\ connection = NoConnection
    /\ lastOp = "mount"

NextEdgeIds ==
    \/ Connect
    \/ AnimationFrame

SpecEdgeIds == InitEdgeIds /\ [][NextEdgeIds]_vars

----------------------------------------------------------------------------
(* Properties of the save flow *)

\* the last step resumed a call of onSubmit with a success that carries data,
\* so that the reconciliation pass was entered
ReconciliationRan ==
    /\ lastOp' = "onSubmitResumes"
    /\ handled'.res.success
    /\ handled'.res.hasData

\* positions of the MCP nodes of ns that hold agentId ag and toolId tl and no
\* relationshipId yet
NewMcpNodes(ns, ag, tl) ==
    {i \in 1..Len(ns) : /\ ns[i].type = NodeTypeMCP
                        /\ ns[i].agentId = ag /\ ns[i].toolId = tl
                        /\ ns[i].relationshipId = Null}

\* the relationship ids the returned agents map holds for agent ag and tool tl
MatchingRelationshipIds(agents, ag, tl) ==
    IF ag \in DOMAIN agents /\ agents[ag].hasCanUse
    THEN {agents[ag].canUse[j].agentToolRelationId :
             j \in {j \in 1..Len(agents[ag].canUse) :
                      /\ agents[ag].canUse[j].toolId = tl
                      /\ agents[ag].canUse[j].agentToolRelationId # Null}}
    ELSE {}

HeldAgentIds == {d.agentId : d \in SaveMcpData} \ {Null}
HeldToolIds == {d.toolId : d \in SaveMcpData} \ {Null}

\* the k new nodes of agent ag and tool tl each end the step with a
\* relationshipId, no two of them with the same one
EndDistinct(ag, tl) ==
    \A i \in NewMcpNodes(nodes, ag, tl) :
       /\ nodes'[i].relationshipId # Null
       /\ \A j \in NewMcpNodes(nodes, ag, tl) :
             i # j => nodes'[i].relationshipId # nodes'[j].relationshipId

\* C11: in a reconciliation pass, k new MCP nodes with the same agentId and
\* toolId, the response holding at least k matching relationship ids, end
\* with k pairwise distinct relationshipIds.
C11_NewNodesEndDistinct ==
    [][ReconciliationRan =>
          \A ag \in HeldAgentIds, tl \in HeldToolIds :
             Cardinality(MatchingRelationshipIds(handled'.res.agents, ag, tl))
                 >= Cardinality(NewMcpNodes(nodes, ag, tl))
             => EndDistinct(ag, tl)]_vars

\* the same for the passes that run to their end
C11_NewNodesEndDistinctUnlessThrown ==
    [][ReconciliationRan /\ ~thrown' =>
          \A ag \in HeldAgentIds, tl \in HeldToolIds :
             Cardinality(MatchingRelationshipIds(handled'.res.agents, ag, tl))
                 >= Cardinality(NewMcpNodes(nodes, ag, tl))
             => EndDistinct(ag, tl)]_vars

\* the last step resumed a call of onSubmit with a failure
FailureHandled == lastOp' = "onSubmitResumes" /\ ~handled'.res.success

\* C12: the save flow clears the dirty flag only when a save has returned
\* success: the part of onSubmit before the response leaves the flag alone,
\* and so does a call resumed with a failure, whether its error parses or not.
C12_MarkSavedOnlyAfterSuccess ==
    [][/\ lastOp' = "onSubmit" => dirty' = dirty
       /\ FailureHandled => dirty' = dirty
       /\ (dirty /\ ~dirty' /\ lastOp' \in {"onSubmit", "onSubmitResumes"})
             => handled'.res.success]_vars

\* a failure whose error parses has been handled and the graph is still dirty
C12_Witness ==
    /\ lastOp = "onSubmitResumes"
    /\ ~handled.res.success
    /\ handled.res.error = "E1"
    /\ dirty

\* the save just issued
IssuedCall == inflight'[Len(inflight')]

\* C13: once the backend has assigned the graph an id (metadata.id holds it),
\* every save issued afterwards passes that id as the existing graph id.
C13_LaterSavesPassAssignedId ==
    [][(lastOp' = "onSubmit" /\ metadataId # Null)
          => IssuedCall.existingId = metadataId]_vars

\* the last step resumed a call with a failure whose error the parser rejects
ParseFailureHandled ==
    /\ FailureHandled
    /\ parseGraphValidationErrors(handled'.res.error).threw

\* C14: a failure whose error payload cannot be parsed ends onSubmit without
\* an exception, with the generic failure notification, and with the error
\* summary, the dirty flag, nodes, edges and metadata as they were.
C14_ParseFailureIsGeneric ==
    [][ParseFailureHandled =>
          /\ ~thrown'
          /\ toast' = {"Failed to save graph"}
          /\ UNCHANGED <<errors, dirty, nodes, edges, metadataId>>]_vars

\* an unparseable failure has been handled while an error summary was stored
C14_Witness ==
    /\ lastOp = "onSubmitResumes"
    /\ handled.res.error = "garbled"
    /\ errors # Null
    /\ toast = {"Failed to save graph"}

\* C15: no call of onSubmit ends with an exception nobody caught.
C15_NoUncaughtException == ~thrown

\* C16: of two overlapping saves the later-issued one decides: when the
\* response of the earlier-issued save arrives after that of the later one,
\* it leaves the error summary and the dirty flag as the later save set them.
C16_LaterIssuedSaveDecides ==
    [][(/\ lastOp' = "onSubmitResumes"
        /\ Len(inflight) = 1
        /\ \E seq \in 1..issued : seq > handled'.seq)
          => UNCHANGED <<errors, dirty>>]_vars

----------------------------------------------------------------------------
(* Properties of rendering *)

\* C17: within one mount setInitial is called exactly once, by the first
\* render, however often the graph prop, the lookups and the store's nodes
\* change afterwards.
C17_SetInitialOncePerMount ==
    setInitialCalls = (IF mounted THEN 1 ELSE 0)

\* the editor has rendered again with a graph that differs from the one it
\* was mounted with, and after a node was dropped
C17_Witness ==
    /\ mounted
    /\ renders >= 2
    /\ graph.defined /\ graph.nodes # LoadedGraph.nodes
    /\ Len(nodes) > Len(LoadedGraph.nodes)
    /\ setInitialCalls = 1

----------------------------------------------------------------------------
(* Properties of the fit-view timers *)

FitViewTriggers == {"isOpen", "showPlayground"}

PendingOf(trigger) == {t \in timers : t.trigger = trigger}

\* C18: each fit-view trigger has at most one pending timer (a later run of
\* its effect clears the earlier timer before it sets a new one), and after
\* the unmount no timer is pending and no fit-view callback has run.
C18_OnePendingTimerPerTrigger ==
    /\ \A trigger \in FitViewTriggers : Cardinality(PendingOf(trigger)) <= 1
    /\ tornDown => timers = {}
    /\ ~lateFitView

\* an effect has just run again while its earlier timer was pending: that
\* timer was cleared and the new one is pending
C18_Witness ==
    /\ lastOp = "fitViewEffect"
    /\ \E t \in cancelled : Cardinality(PendingOf(t.trigger)) = 1

----------------------------------------------------------------------------
(* Properties of the API layer *)

\* the step is a request of the management plane / of the run plane
ManageRequest == requests' = requests + 1 /\ lastRequest'.plane = "manage"
RunRequest == requests' = requests + 1 /\ lastRequest'.plane = "run"

\* C19: each fallback warning is emitted at most once, and each base URL is
\* resolved by the first request of its plane and is the one every later
\* request of that plane uses.
C19_WarnOnceAndUrlStable ==
    [][/\ warnings'.manage <= 1 /\ warnings'.run <= 1
       /\ ManageRequest =>
             /\ INKEEP_AGENTS_MANAGE_API_URL' # Null
             /\ lastRequest'.baseUrl = INKEEP_AGENTS_MANAGE_API_URL'
             /\ INKEEP_AGENTS_MANAGE_API_URL # Null
                   => INKEEP_AGENTS_MANAGE_API_URL' = INKEEP_AGENTS_MANAGE_API_URL
             /\ (INKEEP_AGENTS_MANAGE_API_URL = Null /\ Falsy(env.manage))
                   => /\ warnings'.manage = 1
                      /\ lastRequest'.baseUrl = DEFAULT_INKEEP_AGENTS_MANAGE_API_URL
       /\ RunRequest =>
             /\ INKEEP_AGENTS_RUN_API_URL' # Null
             /\ lastRequest'.baseUrl = INKEEP_AGENTS_RUN_API_URL'
             /\ INKEEP_AGENTS_RUN_API_URL # Null
                   => INKEEP_AGENTS_RUN_API_URL' = INKEEP_AGENTS_RUN_API_URL
             /\ (INKEEP_AGENTS_RUN_API_URL = Null /\ Falsy(env.run))
                   => /\ warnings'.run = 1
                      /\ lastRequest'.baseUrl = DEFAULT_INKEEP_AGENTS_RUN_API_URL]_vars

\* with both variables unset, both planes have been used, one of them more
\* than once, and each has warned once
C19_Witness ==
    /\ Falsy(env.manage) /\ Falsy(env.run)
    /\ requests >= 3
    /\ warnings = [manage |-> 1, run |-> 1]
    /\ INKEEP_AGENTS_MANAGE_API_URL = DEFAULT_INKEEP_AGENTS_MANAGE_API_URL
    /\ INKEEP_AGENTS_RUN_API_URL = DEFAULT_INKEEP_AGENTS_RUN_API_URL

\* the code of the body's error object, 'unknown' when the body is not JSON
\* or has no error field
ExpectedErrorCode(body) == IF body = BodyWithError THEN "not_found" ELSE "unknown"

\* C20: a request returns a value or raises an ApiError; a non-2xx response
\* raises an ApiError with the response's status and the body's error (code
\* 'unknown' without one); a network failure or another thrown error raises
\* an ApiError with status 500 and code 'internal_server_error'.
C20_OnlyApiErrorEscapes ==
    lastRequest.plane # Null =>
       LET f == lastRequest.fetched
           o == lastRequest.outcome
       IN  /\ o.kind \in {"return", "ApiError"}
           /\ (~f.network /\ ~f.ok)
                 => o = ThrownApiError(ExpectedErrorCode(f.body), f.status)
           /\ f.network => o = ThrownApiError("internal_server_error", 500)
           /\ (~f.network /\ f.ok)
                 => o \in {Returned, ThrownApiError("internal_server_error", 500)}

----------------------------------------------------------------------------
(* Properties of saving while the editor stays in use *)

\* the nodes without what a save does not compare: the selection, and the
\* relationshipId the reconciliation pass may fill in
PersistedShape(ns) ==
    [i \in 1..Len(ns) |-> [ns[i] EXCEPT !.selected = FALSE,
                                        !.relationshipId = Null]]

\* C21: when a resumed save leaves the dirty flag false, the store's nodes
\* and edges are the ones that were serialized for that save, also when the
\* graph was edited or a deferred edge-creation command ran during the await.
C21_CleanStoreIsPersisted ==
    [][(lastOp' = "onSubmitResumes" /\ handled'.res.success /\ ~dirty')
          => /\ PersistedShape(nodes') = PersistedShape(handled'.nodes)
             /\ SerializedEdges(edges') = handled'.edges]_vars

\* C22: each invocation of onSubmit calls the save operation exactly once,
\* with or without the orphaned-tool warning, and no other step calls it:
\* a failed save is not retried.
C22_OneSaveCallPerSubmit ==
    [][/\ issued' = issued + 1
          => /\ saveCalls' = saveCalls + 1
             /\ Len(inflight') = Len(inflight) + 1
       /\ issued' = issued => saveCalls' = saveCalls
       /\ FailureHandled
          => /\ saveCalls' = saveCalls
             /\ Len(inflight') = Len(inflight) - 1]_vars

\* a second save was started with the warning shown after the first one was
\* answered: two invocations, two calls, the second one in flight
C22_Witness ==
    /\ lastOp = "onSubmit"
    /\ toast = {"orphaned tools"}
    /\ issued = 2 /\ saveCalls = 2
    /\ Len(inflight) = 1 /\ inflight[1].seq = 2

\* the MCP nodes the reconciliation pass may give a relationshipId
Reconcilable(n) ==
    /\ n.type = NodeTypeMCP
    /\ n.agentId # Null /\ n.toolId # Null
    /\ n.relationshipId = Null

\* C23: the reconciliation pass changes only the relationshipId of MCP nodes
\* with an agentId, a toolId and no relationshipId, and only to the id of a
\* relationship the response lists under that agentId with that toolId; the
\* other nodes, the number and order of nodes, and the edges stay as they are.
C23_ReconciliationFrame ==
    [][ReconciliationRan =>
          /\ edges' = edges
          /\ Len(nodes') = Len(nodes)
          /\ \A i \in 1..Len(nodes) :
                \/ nodes'[i] = nodes[i]
                \/ /\ Reconcilable(nodes[i])
                   /\ nodes'[i].relationshipId
                         \in MatchingRelationshipIds(handled'.res.agents,
                                                     nodes[i].agentId,
                                                     nodes[i].toolId)
                   /\ nodes'[i] = [nodes[i] EXCEPT !.relationshipId =
                                                     nodes'[i].relationshipId]]_vars

\* a pass gave one node a relationshipId next to an MCP node that held one
\* before the save and kept it
C23_Witness ==
    /\ lastOp = "onSubmitResumes"
    /\ handled.res.success /\ handled.res.hasData
    /\ Len(nodes) = Len(handled.nodes)
    /\ \E i, j \in 1..Len(nodes) :
          /\ Reconcilable(handled.nodes[i])
          /\ nodes[i].relationshipId # Null
          /\ handled.nodes[j].type = NodeTypeMCP
          /\ handled.nodes[j].relationshipId # Null
          /\ nodes[j].relationshipId = handled.nodes[j].relationshipId

\* positions of the MCP nodes of ns
McpNodes(ns) == {i \in 1..Len(ns) : ns[i].type = NodeTypeMCP}

\* no two MCP nodes of ns hold the same relationshipId
DistinctRelationshipIds(ns) ==
    \A i, j \in McpNodes(ns) :
       (i # j /\ ns[i].relationshipId # Null)
          => ns[i].relationshipId # ns[j].relationshipId

\* the relationships of the returned agents map, as <<agentId, position>>
ServerRelationships(agents) ==
    {e \in (DOMAIN agents) \X (1..MaxSaveMcp) :
        agents[e[1]].hasCanUse /\ e[2] <= Len(agents[e[1]].canUse)}

\* the response lists no relationship id twice
DistinctServerIds(agents) ==
    \A e, f \in ServerRelationships(agents) :
       LET x == agents[e[1]].canUse[e[2]].agentToolRelationId
           y == agents[f[1]].canUse[f[2]].agentToolRelationId
       IN  (e # f /\ x # Null) => x # y

\* C24: when the relationshipIds held before a successful save are pairwise
\* distinct and so are the ids of the response, no two MCP nodes hold the
\* same relationshipId after the reconciliation pass, a node that held its
\* id before the save and a new node of the same agent and tool included.
C24_RelationshipIdsStayDistinct ==
    [][(/\ ReconciliationRan
        /\ DistinctRelationshipIds(nodes)
        /\ DistinctServerIds(handled'.res.agents))
          => DistinctRelationshipIds(nodes')]_vars

----------------------------------------------------------------------------
(* Properties of the edge ids *)

\* the edges that exist or are about to: those of the store and those
\* prepared for the next animation frame
DerivedEdges == Range(edges) \cup Range(rafQueue)

\* the logical edge an edge stands for: its unordered endpoints, one node
\* for a self-loop
LogicalEdge(e) == {e.source, e.target}

\* C25: the ids onConnect derives are injective on logical edges: two
\* connections over different unordered endpoint pairs, or a self-loop and
\* a connection between two nodes, never get the same edge id.
C25_EdgeIdsInjective ==
    \A e, f \in DerivedEdges : e.id = f.id => LogicalEdge(e) = LogicalEdge(f)

----------------------------------------------------------------------------
(* Properties of the navigable state *)

\* C26: from a navigable state with at most one of nodeId and edgeId set,
\* after the mount-time reconciliation and any sequence of onSelectionChange,
\* closeSidePane, backToGraph, handleNavigateToNode and handleNavigateToEdge:
\* pane = 'node' exactly when nodeId is set, pane = 'edge' exactly when
\* edgeId is set, and the two ids are never both set.
C26_NavigableStateConsistent ==
    mounted =>
       /\ (pane = "node") <=> (nodeId # Null)
       /\ (pane = "edge") <=> (edgeId # Null)
       /\ ~(nodeId # Null /\ edgeId # Null)
====
